---- MODULE Spec2Model ----
(***************************************************************************)
(* A model of aiohttp/pytest_plugin.py: the pytest plugin that runs       *)
(* coroutine tests and coroutine fixtures on an event loop and that       *)
(* provides the test_server / raw_test_server / test_client factories.    *)
(*                                                                         *)
(* Spec models one test item going through the host's protocol            *)
(* (fixture setup, call, teardown) with the plugin's hooks translated     *)
(* from the source.  GenSpec models pytest_generate_tests as a function   *)
(* of the --loop option.                                                  *)
(***************************************************************************)
EXTENDS Integers, Sequences, FiniteSets, TLC

\* ---------------------------------------------------------------- bounds
\* factory calls (go) made within one test
MaxGo == 2
\* fixtures a test function names in its signature
MaxArgs == 2
\* warnings recorded during one test's run window
MaxWarn == 2
\* length of the --loop option, in symbols
MaxOpt == 4

\* ---------------------------------------------------------------- names
\* the loop made by the 'loop' fixture, the loop made by pytest_pyfunc_call
FixtureLoop == "fixture_loop"
CallLoop == "call_loop"
Loops == {FixtureLoop, CallLoop}

Registries == {"test_server", "raw_test_server", "test_client"}
AsyncFixtures == {"agen", "acoro"}
Fixtures == {"loop"} \cup Registries \cup AsyncFixtures

VARIABLES
    \* ---- the test item and the options (fixed after Init)
    fast,            \* --fast
    function,        \* pyfuncitem.function: "coro", "asyncgen" or "sync"
    fixturenames,    \* request.fixturenames: the item's fixture closure
    \* ---- the host's protocol
    phase,           \* "setup", "call", "teardown", "done"
    setupDone,       \* fixtures whose setup was executed
    finStack,        \* the host's stack of scheduled fixture finishes
    raised,          \* the errors that reached the host: [where, exc]
    \* ---- pytest_fixture_setup
    argnames,        \* fixturedef.argnames of each async fixture
    called,          \* for each async fixture: the kwargs its real function
                     \* was called with, or <<>> while it was not called
    finalizers,      \* async fixtures with a finalizer added to the request
    gen,             \* the async generator: "none", "suspended", "finished"
    genAdv,          \* the phases in which gen.__anext__() was run, in order
    finalizerOut,    \* what finalizer() did: "none", "swallowed",
                     \* "returned", "raised"
    \* ---- loops
    loopState,       \* per loop: "none", "open", "closed"
    runLog,          \* what was run on which loop: [what, loop, closed]
    \* ---- pytest_pyfunc_call
    callState,       \* "idle", "running", "hostrun", "over"
    callResult,      \* "pending", "True", "None", "body_exc", "RuntimeError"
    bodyOutcome,     \* how the coroutine run at line 164 ended: "none",
                     \* "return", "raise"
    created,         \* loops pytest_pyfunc_call created
    teardowns,       \* teardown_test_loop calls made: [loop, fast]
    recorded,        \* the warnings recorded in the run window (categories)
    reported,        \* the warnings the aggregate RuntimeError lists
    \* ---- the registries
    inst,            \* every instance constructed, in order of construction:
                     \* [cls, srv, started, closes, made]
    reg,             \* per factory: its tracked list (servers / clients)
    closeLog,        \* the instances the finalizers popped and closed, in order
    nGo,             \* factory calls so far
    lastGo,          \* how the last factory call ended
    param,           \* what the last call of test_client's go was given:
                     \* [type, callable, returns, args], or NoParam
    \* ---- pytest_generate_tests
    loops,           \* metafunc.config.option.loop, split at ','
    avail,           \* the optional implementations that import
    genOut           \* [status, name, listed, ids]

lifeVars == <<fast, function, fixturenames, phase, setupDone, finStack, raised,
              argnames, called, finalizers, gen, genAdv, finalizerOut,
              loopState, runLog, callState, callResult, created, teardowns,
              recorded,
              reported, inst, reg, closeLog, nGo, lastGo, param, bodyOutcome>>
genVars == <<loops, avail, genOut>>
vars == <<lifeVars, genVars>>

\* ---------------------------------------------------------------- helpers
Range(s) == {s[i] : i \in DOMAIN s}

Reverse(s) == [i \in 1..Len(s) |-> s[Len(s) + 1 - i]]

\* the last n elements of s, last one first: what n pops return
Popped(s, n) == [i \in 1..n |-> s[Len(s) + 1 - i]]

\* ---------------------------------------------------------------- the item
\* The fixture closure of a test whose signature names args, with the async
\* fixtures declared with the argnames decl: the registries declare 'loop'
\* (lines 219, 242, 265), an async fixture may.
Closure(args, decl) ==
    args \cup
    (IF \/ args \cap Registries # {}
        \/ \E f \in args \cap AsyncFixtures : "loop" \in decl[f]
     THEN {"loop"} ELSE {})

\* no call of test_client's go was made, or none whose result is still held
NoParam == [type |-> "none", callable |-> FALSE, returns |-> "-", args |-> FALSE]

\* pyfuncitem.funcargs.get('loop', None) (line 159): the host fills funcargs
\* with the value of every fixture of the closure before the call.
NoLoop == "no_loop"
existing_loop == IF "loop" \in setupDone THEN FixtureLoop ELSE NoLoop

LifeInit ==
    /\ fast \in BOOLEAN
    /\ function \in {"coro", "asyncgen", "sync"}
    /\ \E args \in {a \in SUBSET Fixtures : Cardinality(a) <= MaxArgs} :
         /\ argnames \in [AsyncFixtures -> SUBSET {"loop", "request"}]
         /\ \A f \in AsyncFixtures \ args : argnames[f] = {}
         /\ fixturenames = Closure(args, argnames)
    /\ phase = "setup"
    /\ setupDone = {}
    /\ finStack = <<>>
    /\ raised = {}
    /\ called = [f \in AsyncFixtures |-> <<>>]
    /\ finalizers = {}
    /\ gen = "none"
    /\ genAdv = <<>>
    /\ finalizerOut = "none"
    /\ loopState = [l \in Loops |-> "none"]
    /\ runLog = {}
    /\ callState = "idle"
    /\ callResult = "pending"
    /\ bodyOutcome = "none"
    /\ created = {}
    /\ teardowns = {}
    /\ recorded = <<>>
    /\ reported = <<>>
    /\ inst = <<>>
    /\ reg = [r \in Registries |-> <<>>]
    /\ closeLog = <<>>
    /\ nGo = 0
    /\ lastGo = "none"
    /\ param = NoParam

GenIdle ==
    /\ loops = <<>>
    /\ avail = {}
    /\ genOut = [status |-> "idle", name |-> <<>>, listed |-> <<>>, ids |-> <<>>]

Init == LifeInit /\ GenIdle

\* ---------------------------------------------------------------- loops
\* run_until_complete on loop l: the record kept of it
Ran(what, l, states) == [what |-> what, loop |-> l, closed |-> states[l] = "closed"]

\* the 'loop' fixture with its yield after the with block
LoopAtYieldOutsideWith == "closed"

\* The state of the loop while the 'loop' fixture is suspended at its yield,
\* inside "with loop_context(...)" (lines 205-208).
LoopAtYield == "open"

\* The 'loop' fixture up to its yield, run when the host resolves 'loop' and
\* it has no value yet: as a fixture of its own, or nested in the setup of a
\* fixture that needs it.  It finishes before the fixture that asked for it,
\* so its finish is scheduled first.
loopStateWithLoop ==
    IF "loop" \in setupDone THEN loopState
    ELSE [loopState EXCEPT ![FixtureLoop] = LoopAtYield]
finStackWithLoop ==
    IF "loop" \in setupDone THEN finStack ELSE Append(finStack, "loop")

LifeUnchangedCfg == UNCHANGED <<fast, function, fixturenames, genVars>>

\* The host sets up 'loop' itself (lines 202-208).
SetupLoop ==
    /\ phase = "setup"
    /\ "loop" \in fixturenames \ setupDone
    /\ loopState' = loopStateWithLoop
    /\ finStack' = finStackWithLoop
    /\ UNCHANGED teardowns
    /\ setupDone' = setupDone \cup {"loop"}
    /\ LifeUnchangedCfg
    /\ UNCHANGED bodyOutcome
    /\ UNCHANGED <<phase, raised, argnames, called, finalizers, gen, genAdv,
                   finalizerOut, runLog, callState, callResult, created,
                   recorded, reported, inst, reg, closeLog, nGo, lastGo, param>>

\* test_server, raw_test_server, test_client up to their yield
\* (lines 224-232, 247-255, 272-296): an empty list, and go handed out.
SetupRegistry(r) ==
    /\ phase = "setup"
    /\ r \in (fixturenames \cap Registries) \ setupDone
    /\ loopState' = loopStateWithLoop
    /\ UNCHANGED teardowns
    /\ finStack' = Append(finStackWithLoop, r)
    /\ setupDone' = setupDone \cup {"loop", r}
    /\ reg' = [reg EXCEPT ![r] = <<>>]
    /\ LifeUnchangedCfg
    /\ UNCHANGED bodyOutcome
    /\ UNCHANGED <<phase, raised, argnames, called, finalizers, gen, genAdv,
                   finalizerOut, runLog, callState, callResult, created,
                   recorded, reported, inst, closeLog, nGo, lastGo, param>>

\* ---------------------------------------------------------------- pytest_fixture_setup
\* the wrapper never deleting 'request' from the kwargs
strip_requestNever(f) == FALSE

\* line 58: 'request' is added to the argnames unless declared
strip_request(f) == "request" \notin argnames[f]

\* the wrapper without its guard
LoopInScopeUnchecked == TRUE

\* line 70: the wrapper's guard
LoopInScope == "loop" \in fixturenames

\* lines 63-65: the kwargs the real fixture function is called with; the host
\* passes one value per argname, 'request' included
RealKwargs(f) ==
    IF strip_request(f) THEN argnames[f] \ {"request"}
    ELSE argnames[f] \cup {"request"}

\* What the first gen.__anext__() can do: yield the fixture value, raise, or
\* end at once (StopAsyncIteration, which nothing in the wrapper catches).
FirstAdvance == {"yield", "raise", "stop"}
\* What the second one can do on a suspended generator.
SecondAdvance == {"stop", "yield", "raise"}

\* the wrapper calling finalizer() where it should add it
WrapperAdvancesTwice == <<phase, phase>>

\* lines 89-90: the wrapper adds the finalizer and advances the generator
\* once; the phases of the advancements it makes
WrapperAdvances == <<phase>>

\* the wrapper adding the finalizer after the first advancement
FinalizerAddedAfterAdvance(out) == out = "yield"

\* lines 89-90: whether the finalizer is added to the request, given what the
\* first advancement does: addfinalizer comes first, so always
FinalizerAdded(out) == TRUE

\* The hook and the wrapper it installs, for the async generator fixture
\* (lines 41-90), run by the host when it sets the fixture up.
SetupAsyncGen ==
    /\ phase = "setup"
    /\ "agen" \in fixturenames \ setupDone
    /\ argnames' = [argnames EXCEPT !["agen"] = @ \cup {"request"}]
    /\ setupDone' = setupDone \cup {"agen"} \cup (IF LoopInScope THEN {"loop"} ELSE {})
    /\ IF ~LoopInScope
       THEN /\ raised' = raised \cup {[where |-> "agen", exc |-> "usage"]}
            /\ phase' = "teardown"
            /\ finStack' = Append(finStack, "agen")
            /\ UNCHANGED <<called, finalizers, gen, genAdv, loopState, runLog,
                           teardowns>>
       ELSE /\ loopState' = loopStateWithLoop
            /\ UNCHANGED teardowns
            /\ finStack' = Append(finStackWithLoop, "agen")
            /\ called' = [called EXCEPT !["agen"] = <<RealKwargs("agen")>>]
            /\ genAdv' = genAdv \o WrapperAdvances
            /\ runLog' = runLog \cup {Ran("fixture_setup", FixtureLoop, loopState')}
            /\ \E out \in FirstAdvance :
                 /\ finalizers' = IF FinalizerAdded(out)
                                  THEN finalizers \cup {"agen"} ELSE finalizers
                 /\ IF out = "yield"
                    THEN /\ gen' = "suspended"
                         /\ UNCHANGED <<raised, phase>>
                    ELSE /\ gen' = "finished"
                         /\ raised' = raised \cup {[where |-> "agen", exc |-> out]}
                         /\ phase' = "teardown"
    /\ LifeUnchangedCfg
    /\ UNCHANGED bodyOutcome
    /\ UNCHANGED <<finalizerOut, callState, callResult, created, recorded,
                   reported, inst, reg, closeLog, nGo, lastGo, param>>

\* The same for the single-shot async fixture (lines 41-76, 92).
SetupAsyncCoro ==
    /\ phase = "setup"
    /\ "acoro" \in fixturenames \ setupDone
    /\ argnames' = [argnames EXCEPT !["acoro"] = @ \cup {"request"}]
    /\ setupDone' = setupDone \cup {"acoro"} \cup (IF LoopInScope THEN {"loop"} ELSE {})
    /\ IF ~LoopInScope
       THEN /\ raised' = raised \cup {[where |-> "acoro", exc |-> "usage"]}
            /\ phase' = "teardown"
            /\ finStack' = Append(finStack, "acoro")
            /\ UNCHANGED <<called, loopState, runLog, teardowns>>
       ELSE /\ loopState' = loopStateWithLoop
            /\ UNCHANGED teardowns
            /\ finStack' = Append(finStackWithLoop, "acoro")
            /\ called' = [called EXCEPT !["acoro"] = <<RealKwargs("acoro")>>]
            /\ runLog' = runLog \cup {Ran("fixture_setup", FixtureLoop, loopState')}
            /\ \E out \in {"return", "raise"} :
                 IF out = "return"
                 THEN UNCHANGED <<raised, phase>>
                 ELSE /\ raised' = raised \cup {[where |-> "acoro", exc |-> out]}
                      /\ phase' = "teardown"
    /\ LifeUnchangedCfg
    /\ UNCHANGED bodyOutcome
    /\ UNCHANGED <<finalizers, gen, genAdv, finalizerOut, callState, callResult,
                   created, recorded, reported, inst, reg, closeLog, nGo, lastGo, param>>

\* Every fixture of the closure has a value: the host goes on to the call.
SetupComplete ==
    /\ phase = "setup"
    /\ fixturenames \subseteq setupDone
    /\ phase' = "call"
    /\ LifeUnchangedCfg
    /\ UNCHANGED bodyOutcome
    /\ UNCHANGED <<setupDone, finStack, raised, argnames, called, finalizers,
                   gen, genAdv, finalizerOut, loopState, runLog, callState,
                   callResult, created, teardowns, recorded, reported, inst,
                   reg, closeLog, nGo, lastGo, param>>

\* ---------------------------------------------------------------- pytest_pyfunc_call
\* _passthrough_loop_context ignoring the loop passed in
PassthroughLoopAlwaysNew(loop) == CallLoop

\* _passthrough_loop_context's choice (lines 135-141): the loop passed in when
\* there is one, else a loop of its own from setup_test_loop().
PassthroughLoop(loop) == IF loop # NoLoop THEN loop ELSE CallLoop

\* Whether _passthrough_loop_context runs teardown_test_loop when the block it
\* wraps has ended with outcome out (lines 140-142): the call follows the
\* yield with no try/finally, so an exception thrown in at the yield skips it.
TearsDownAfter(out) == out = "return"

\* The warnings a run window can record, as their categories: RuntimeWarning
\* itself, a class derived from it, and an unrelated one.  Line 120 compares
\* the category with ==.
Categories == {"RuntimeWarning", "DerivedRuntimeWarning", "UserWarning"}
RECURSIVE SeqsUpTo(_, _)
SeqsUpTo(S, n) ==
    IF n = 0 THEN {<<>>}
    ELSE LET shorter == SeqsUpTo(S, n - 1)
         IN shorter \cup {Append(q, x) : q \in {t \in shorter : Len(t) = n - 1}, x \in S}
WarningLists == SeqsUpTo(Categories, MaxWarn)

\* the list without the test on the category: every recorded warning
rwUnfiltered(ws) == [i \in 1..Len(ws) |-> i]

\* lines 119-120: the positions of the RuntimeWarnings among the recorded
RECURSIVE rwFrom(_, _)
rwFrom(ws, i) ==
    IF i > Len(ws) THEN <<>>
    ELSE IF ws[i] = "RuntimeWarning" THEN <<i>> \o rwFrom(ws, i + 1)
         ELSE rwFrom(ws, i + 1)
rw(ws) == rwFrom(ws, 1)

\* a test on the function that takes an async generator function as well
iscoroutinefunctionOrGen(f) == f \in {"coro", "asyncgen"}

\* asyncio.iscoroutinefunction(pyfuncitem.function) (line 158): true of an
\* "async def" function without a yield only
iscoroutinefunction(f) == f = "coro"

\* lines 157-164 up to the start of the body: a coroutine function is run on
\* the loop of the fixture values or on a new one; anything else is declined
\* (the function returns None) and the host calls the function itself.
PyfuncCallEnter ==
    /\ phase = "call"
    /\ callState = "idle"
    /\ IF iscoroutinefunction(function)
       THEN LET theLoop == PassthroughLoop(existing_loop)
                states == IF theLoop = CallLoop
                          THEN [loopState EXCEPT ![CallLoop] = "open"]
                          ELSE loopState
            IN /\ loopState' = states
               /\ created' = IF theLoop = CallLoop THEN {CallLoop} ELSE {}
               /\ runLog' = runLog \cup {Ran("test_body", theLoop, states)}
               /\ callState' = "running"
               /\ UNCHANGED callResult
       ELSE /\ callResult' = "None"
            /\ callState' = "hostrun"
            /\ UNCHANGED <<loopState, created, runLog>>
    /\ LifeUnchangedCfg
    /\ UNCHANGED bodyOutcome
    /\ UNCHANGED <<phase, setupDone, finStack, raised, argnames, called,
                   finalizers, gen, genAdv, finalizerOut, teardowns, recorded,
                   reported, inst, reg, closeLog, nGo, lastGo, param>>

\* _runtime_warning_context with its inspection in a finally clause
InspectsAlways(out) == TRUE

\* Whether _runtime_warning_context looks at the recorded warnings when the
\* block it wraps has ended with outcome out (lines 118-121): the inspection
\* follows the yield with no try/finally, so an exception thrown in at the
\* yield skips it.
Inspects(out) == out = "return"

\* lines 160-166 from the end of the body: the two context managers unwind,
\* the inner one first, and the call returns True or raises.
PyfuncCallExit ==
    /\ callState = "running"
    /\ \E out \in {"return", "raise"}, ws \in WarningLists :
         /\ recorded' = ws
         /\ IF CallLoop \in created /\ TearsDownAfter(out)
            THEN /\ loopState' = [loopState EXCEPT ![CallLoop] = "closed"]
                 /\ teardowns' = teardowns \cup {[loop |-> CallLoop, fast |-> fast]}
            ELSE UNCHANGED <<loopState, teardowns>>
         /\ bodyOutcome' = out
         /\ IF Inspects(out) /\ rw(ws) # <<>>
            THEN /\ callResult' = "RuntimeError"
                 /\ raised' = raised \cup {[where |-> "call", exc |-> "RuntimeError"]}
                 /\ reported' = rw(ws)
            ELSE IF out = "raise"
            THEN /\ callResult' = "body_exc"
                 /\ raised' = raised \cup {[where |-> "call", exc |-> "body"]}
                 /\ UNCHANGED reported
            ELSE /\ callResult' = "True"
                 /\ UNCHANGED <<raised, reported>>
    /\ callState' = "over"
    /\ phase' = "teardown"
    /\ LifeUnchangedCfg
    /\ UNCHANGED <<setupDone, finStack, argnames, called, finalizers, gen,
                   genAdv, finalizerOut, runLog, created, inst, reg, closeLog,
                   nGo, lastGo, param>>

\* The host's own call of a function the plugin declined.
HostCall ==
    /\ callState = "hostrun"
    /\ \E out \in {"return", "raise"} :
         raised' = IF out = "raise"
                   THEN raised \cup {[where |-> "call", exc |-> "body"]}
                   ELSE raised
    /\ callState' = "over"
    /\ phase' = "teardown"
    /\ LifeUnchangedCfg
    /\ UNCHANGED bodyOutcome
    /\ UNCHANGED <<setupDone, finStack, argnames, called, finalizers, gen,
                   genAdv, finalizerOut, loopState, runLog, callResult, created,
                   teardowns, recorded, reported, inst, reg, closeLog, nGo,
                   lastGo, param>>

\* ---------------------------------------------------------------- the factories
ServerClasses == {"TestServer", "RawTestServer"}

\* A go() of a factory can be awaited by the test body while it runs, or by
\* another fixture of the test during setup, once the factory was handed out.
CanGo(r) ==
    /\ r \in setupDone
    /\ nGo < MaxGo
    /\ \/ phase = "setup"
       \/ callState = "running"
       \/ callState = "hostrun" /\ function = "sync"

\* cls: the class; srv: for a client, the server it talks to; started:
\* whether a start of it returned; closes: the close() calls the finalizers
\* made on it; made: who constructed it, a factory's go() or a callable of
\* the test
NewInst(cls, srv, started, made) ==
    [cls |-> cls, srv |-> srv, started |-> started, closes |-> 0, made |-> made]

\* go() appending the instance before it awaits the start
AppendedBeforeStart(ok) == TRUE

\* lines 228-229, 251-252, 292-293: the append follows the awaited start, so
\* it is reached when the start returned (ok) and not when it raised
Appended(ok) == ok

\* go() of test_server and of raw_test_server (lines 226-230, 249-253): the
\* server is constructed, started on the fixture's loop, and appended once
\* start_server() has returned.
ServerGo(r, cls) ==
    /\ CanGo(r)
    /\ \E ok \in BOOLEAN :
         /\ inst' = Append(inst, NewInst(cls, 0, ok, r))
         /\ reg' = IF Appended(ok)
                   THEN [reg EXCEPT ![r] = Append(@, Len(inst) + 1)] ELSE reg
         /\ lastGo' = IF ok THEN "ok" ELSE "start_error"
    /\ runLog' = runLog \cup {Ran("registry_start", FixtureLoop, loopState)}
    /\ nGo' = nGo + 1
    /\ param' = NoParam
    /\ LifeUnchangedCfg
    /\ UNCHANGED bodyOutcome
    /\ UNCHANGED <<phase, setupDone, finStack, raised, argnames, called,
                   finalizers, gen, genAdv, finalizerOut, loopState, callState,
                   callResult, created, teardowns, recorded, reported, closeLog>>

test_server_go == ServerGo("test_server", "TestServer")

raw_test_server_go == ServerGo("raw_test_server", "RawTestServer")

\* What a test can pass to test_client's go as __param: an application, a
\* server that exists (sid), a callable with what it returns, or anything
\* else; with or without further positional arguments.
ClientParams ==
    {[type |-> "Application", callable |-> c, returns |-> "-", sid |-> 0] : c \in BOOLEAN}
    \cup {[type |-> "BaseTestServer", callable |-> FALSE, returns |-> "-", sid |-> i] :
            i \in {j \in DOMAIN inst : inst[j].cls \in ServerClasses}}
    \cup {[type |-> "function", callable |-> TRUE, returns |-> t, sid |-> 0] :
            t \in {"Application", "BaseTestServer", "other"}}
    \cup {[type |-> "other", callable |-> FALSE, returns |-> "-", sid |-> 0]}

\* lines 276-277: the test that sends __param through a call
CalledForParam(p) ==
    p.callable /\ p.type \notin {"Application", "BaseTestServer"}

\* go() taking whatever a callable returns for an application
ResolvedTypeUnchecked(p) == IF CalledForParam(p) THEN "Application" ELSE p.type

\* lines 276-281: the type of __param after the first if
ResolvedType(p) == IF CalledForParam(p) THEN p.returns ELSE p.type

\* go() appending the server it built as well as the client
TrackedWithServer(server, client) == <<server, client>>

\* client.start_server() (line 292) starts the server the client talks to:
\* whether that server is started after a start that returned (ok) or raised
ServerStartedBy(ok) == ok

\* line 293: what go() tracks after a start that returned: the client
Tracked(server, client) == <<client>>

\* go() of test_client (lines 274-294).
test_client_go ==
    /\ CanGo("test_client")
    /\ nGo' = nGo + 1
    /\ \E p \in ClientParams, args \in BOOLEAN, ok \in BOOLEAN :
         LET n == Len(inst)
             t == ResolvedType(p)
             \* a server constructed for this call: by go() for an application
             \* (line 285), by the callable that returns one
             fresh == t = "Application" \/ (t = "BaseTestServer" /\ CalledForParam(p))
             server == IF fresh THEN n + 1 ELSE p.sid
             client == IF fresh THEN n + 2 ELSE n + 1
             withStart == [i \in DOMAIN inst |->
                             IF i = server /\ ServerStartedBy(ok)
                             THEN [inst[i] EXCEPT !.started = TRUE] ELSE inst[i]]
         IN /\ param' = [type |-> p.type, callable |-> p.callable,
                        returns |-> p.returns, args |-> args]
            /\ IF ~CalledForParam(p) /\ args
               THEN \* line 281
                    /\ lastGo' = "AssertionError"
                    /\ UNCHANGED <<inst, reg, runLog>>
               ELSE IF t \notin {"Application", "BaseTestServer"}
               THEN \* line 290
                    /\ lastGo' = "ValueError"
                    /\ UNCHANGED <<inst, reg, runLog>>
               ELSE /\ inst' = (IF fresh
                                THEN Append(inst, NewInst("TestServer", 0, ServerStartedBy(ok),
                                                          IF t = "Application"
                                                          THEN "test_client"
                                                          ELSE "callable"))
                                ELSE withStart)
                               \o <<NewInst("TestClient", server, ok, "test_client")>>
                    /\ reg' = IF Appended(ok)
                              THEN [reg EXCEPT !["test_client"] = @ \o Tracked(server, client)]
                              ELSE reg
                    /\ lastGo' = IF ok THEN "ok" ELSE "start_error"
                    /\ runLog' = runLog \cup {Ran("registry_start", FixtureLoop, loopState)}
    /\ LifeUnchangedCfg
    /\ UNCHANGED bodyOutcome
    /\ UNCHANGED <<phase, setupDone, finStack, raised, argnames, called,
                   finalizers, gen, genAdv, finalizerOut, loopState, callState,
                   callResult, created, teardowns, recorded, reported, closeLog>>

\* ---------------------------------------------------------------- teardown
\* The list of recorded warnings is local to the run window (line 117) and
\* the result of a go() to the code that awaited it: once the host has left
\* the call they are gone.
CallOver ==
    recorded' = <<>> /\ reported' = <<>> /\ lastGo' = "none" /\ param' = NoParam

\* line 236: finalize() calls close() on each instance it pops, and on no
\* other; closes counts the calls the finalizers make.
instAfterClose(popped) ==
    [i \in DOMAIN inst |->
       [inst[i] EXCEPT !.closes = @ + (IF i \in Range(popped) THEN 1 ELSE 0)]]

\* finalize() with list.pop(0) for list.pop(): the oldest first
FinalizePopsOldestFirst(list, k) ==
    SubSeq(list, 1, IF k <= Len(list) THEN k ELSE Len(list))

\* The instances finalize() pops from list when the k-th close() raises
\* (k = Len(list) + 1: none does): "while list: await list.pop().close()".
FinalizePops(list, k) == Popped(list, IF k <= Len(list) THEN k ELSE Len(list))

\* finalize() closing list[-1] and popping it once close() has returned
LeftClosedOnly(list, k) ==
    SubSeq(list, 1, IF k <= Len(list) THEN Len(list) - k + 1 ELSE 0)

\* What finalize() leaves in list when the k-th close() raises: pop() has
\* removed the instance before its close() is awaited (line 236).
Left(list, k) == SubSeq(list, 1, Len(list) - Len(FinalizePops(list, k)))

Top == finStack[Len(finStack)]
Rest == SubSeq(finStack, 1, Len(finStack) - 1)

\* The rest of test_server, raw_test_server, test_client after the yield
\* (lines 234-238, 257-261, 298-302), run by the host's finish of the fixture.
FinishRegistry(r) ==
    /\ phase = "teardown"
    /\ finStack # <<>> /\ Top = r
    /\ finStack' = Rest
    /\ \E k \in 1..(Len(reg[r]) + 1) :
         LET popped == FinalizePops(reg[r], k)
         IN /\ reg' = [reg EXCEPT ![r] = Left(@, k)]
            /\ closeLog' = closeLog \o popped
            /\ inst' = instAfterClose(popped)
            /\ raised' = IF k <= Len(reg[r])
                         THEN raised \cup {[where |-> r, exc |-> "close"]}
                         ELSE raised
    /\ runLog' = runLog \cup {Ran("registry_close", FixtureLoop, loopState)}
    /\ CallOver
    /\ LifeUnchangedCfg
    /\ UNCHANGED bodyOutcome
    /\ UNCHANGED <<phase, setupDone, argnames, called, finalizers, gen,
                   genAdv, finalizerOut, loopState, callState, callResult,
                   created, teardowns, nGo>>

\* The rest of the 'loop' fixture after its yield (lines 205, 209): the with
\* block ends and loop_context tears the loop down.
FinishLoop ==
    /\ phase = "teardown"
    /\ finStack # <<>> /\ Top = "loop"
    /\ finStack' = Rest
    /\ loopState' = [loopState EXCEPT ![FixtureLoop] = "closed"]
    /\ teardowns' = teardowns \cup {[loop |-> FixtureLoop, fast |-> fast]}
    /\ CallOver
    /\ LifeUnchangedCfg
    /\ UNCHANGED bodyOutcome
    /\ UNCHANGED <<phase, setupDone, raised, argnames, called, finalizers,
                   gen, genAdv, finalizerOut, runLog, callState, callResult,
                   created, inst, reg, closeLog, nGo>>

\* finalizer() (lines 83-87) on what gen.__anext__() did: StopAsyncIteration
\* is caught, a value is returned, any other exception goes through.
FinalizerOn(out) ==
    CASE out = "stop" -> "swallowed"
      [] out = "yield" -> "returned"
      [] out = "raise" -> "raised"

\* The host's finish of the async generator fixture: it runs the finalizer
\* the wrapper added, if it added one.
FinishAsyncGen ==
    /\ phase = "teardown"
    /\ finStack # <<>> /\ Top = "agen"
    /\ finStack' = Rest
    /\ IF "agen" \in finalizers
       THEN /\ genAdv' = Append(genAdv, phase)
            /\ runLog' = runLog \cup {Ran("fixture_finalizer", FixtureLoop, loopState)}
            /\ \E out \in (IF gen = "suspended" THEN SecondAdvance ELSE {"stop"}) :
                 /\ finalizerOut' = FinalizerOn(out)
                 /\ gen' = IF out = "yield" THEN "suspended" ELSE "finished"
                 /\ raised' = IF FinalizerOn(out) = "raised"
                              THEN raised \cup {[where |-> "agen_finalizer", exc |-> out]}
                              ELSE raised
       ELSE UNCHANGED <<genAdv, runLog, finalizerOut, gen, raised>>
    /\ CallOver
    /\ LifeUnchangedCfg
    /\ UNCHANGED bodyOutcome
    /\ UNCHANGED <<phase, setupDone, argnames, called, finalizers, loopState,
                   callState, callResult, created, teardowns, inst, reg,
                   closeLog, nGo>>

\* The host's finish of the single-shot async fixture: nothing was added.
FinishAsyncCoro ==
    /\ phase = "teardown"
    /\ finStack # <<>> /\ Top = "acoro"
    /\ finStack' = Rest
    /\ CallOver
    /\ LifeUnchangedCfg
    /\ UNCHANGED bodyOutcome
    /\ UNCHANGED <<phase, setupDone, raised, argnames, called, finalizers,
                   gen, genAdv, finalizerOut, loopState, runLog, callState,
                   callResult, created, teardowns, inst, reg, closeLog, nGo>>

TeardownComplete ==
    /\ phase = "teardown"
    /\ finStack = <<>>
    /\ phase' = "done"
    /\ CallOver
    /\ LifeUnchangedCfg
    /\ UNCHANGED bodyOutcome
    /\ UNCHANGED <<setupDone, finStack, raised, argnames, called, finalizers,
                   gen, genAdv, finalizerOut, loopState, runLog, callState,
                   callResult, created, teardowns, inst, reg, closeLog, nGo>>

Next ==
    \/ SetupLoop
    \/ \E r \in Registries : SetupRegistry(r)
    \/ SetupAsyncGen
    \/ SetupAsyncCoro
    \/ SetupComplete
    \/ PyfuncCallEnter
    \/ PyfuncCallExit
    \/ HostCall
    \/ test_server_go
    \/ raw_test_server_go
    \/ test_client_go
    \/ \E r \in Registries : FinishRegistry(r)
    \/ FinishLoop
    \/ FinishAsyncGen
    \/ FinishAsyncCoro
    \/ TeardownComplete

Spec == Init /\ [][Next]_vars

\* ---------------------------------------------------------------- pytest_generate_tests
\* The --loop option is a string; it is modelled as a sequence of symbols,
\* each a separator character or a whole word without one.
Words == {"pyloop", "uvloop", "tokio", "bogus", "all"}
Symbols == Words \cup {",", "?", " "}
Optional == {"uvloop", "tokio"}

\* s.split(',')
RECURSIVE SplitFrom(_, _, _)
SplitFrom(s, i, cur) ==
    IF i > Len(s) THEN <<cur>>
    ELSE IF s[i] = "," THEN <<cur>> \o SplitFrom(s, i + 1, <<>>)
         ELSE SplitFrom(s, i + 1, Append(cur, s[i]))
split(s) == SplitFrom(s, 1, <<>>)

\* name.endswith('?')
endswith(name, c) == Len(name) > 0 /\ name[Len(name)] = c

\* name.strip(' ?')
RECURSIVE lstrip(_, _)
lstrip(name, chars) ==
    IF Len(name) > 0 /\ name[1] \in chars THEN lstrip(Tail(name), chars) ELSE name
RECURSIVE rstrip(_, _)
rstrip(name, chars) ==
    IF Len(name) > 0 /\ name[Len(name)] \in chars
    THEN rstrip(SubSeq(name, 1, Len(name) - 1), chars) ELSE name
strip(name, chars) == rstrip(lstrip(name, chars), chars)

\* lines 174-180: the names of avail_factories, given what imports
avail_factories(imported) ==
    {<<"pyloop">>} \cup {<<m>> : m \in imported \cap Optional}

\* factories as a list of pairs: a name selected twice is kept twice
PutAgain(keys, name) == Append(keys, name)

\* factories[name] = ... (line 196): a dict keeps a key's first position
Put(keys, name) == IF name \in Range(keys) THEN keys ELSE Append(keys, name)

\* line 193: the names the error lists, given the dict built so far
ListedInError(factories, imported) == factories

\* lines 185-199: the loop over the names, from the i-th, with the keys of
\* factories so far
RECURSIVE Select(_, _, _, _)
Select(names, i, factories, imported) ==
    IF i > Len(names)
    THEN [status |-> "parametrized", name |-> <<>>, listed |-> <<>>, ids |-> factories]
    ELSE LET required == ~endswith(names[i], "?")
             name == strip(names[i], {" ", "?"})
         IN IF name \notin avail_factories(imported)
            THEN IF required
                 THEN [status |-> "ValueError", name |-> name,
                       listed |-> ListedInError(factories, imported), ids |-> <<>>]
                 ELSE Select(names, i + 1, factories, imported)
            ELSE Select(names, i + 1, Put(factories, name), imported)

\* lines 169-199
pytest_generate_tests ==
    /\ genOut.status = "idle"
    /\ phase = "collect"
    /\ genOut' =
         IF "loop" \notin fixturenames
         THEN [status |-> "returned", name |-> <<>>, listed |-> <<>>, ids |-> <<>>]
         ELSE LET opt == IF loops = <<"all">>
                         THEN <<"pyloop", ",", "uvloop", "?", ",", "tokio", "?">>
                         ELSE loops
              IN Select(split(opt), 1, <<>>, avail)
    /\ UNCHANGED <<loops, avail, lifeVars>>

\* Collection of one test function: the option, what imports, and whether
\* the function's closure holds 'loop' (whose argnames hold 'loop_factory',
\* line 203).
GenInit ==
    /\ loops \in SeqsUpTo(Symbols, MaxOpt)
    /\ avail \in SUBSET Optional
    /\ genOut = [status |-> "idle", name |-> <<>>, listed |-> <<>>, ids |-> <<>>]
    /\ fixturenames \in {{}, {"loop"}}
    /\ phase = "collect"
    /\ fast = FALSE
    /\ function = "coro"
    /\ setupDone = {}
    /\ finStack = <<>>
    /\ raised = {}
    /\ argnames = [f \in AsyncFixtures |-> {}]
    /\ called = [f \in AsyncFixtures |-> <<>>]
    /\ finalizers = {}
    /\ gen = "none"
    /\ genAdv = <<>>
    /\ finalizerOut = "none"
    /\ loopState = [l \in Loops |-> "none"]
    /\ runLog = {}
    /\ callState = "idle"
    /\ callResult = "pending"
    /\ bodyOutcome = "none"
    /\ created = {}
    /\ teardowns = {}
    /\ recorded = <<>>
    /\ reported = <<>>
    /\ inst = <<>>
    /\ reg = [r \in Registries |-> <<>>]
    /\ closeLog = <<>>
    /\ nGo = 0
    /\ lastGo = "none"
    /\ param = NoParam

GenNext == pytest_generate_tests

GenSpec == GenInit /\ [][GenNext]_vars

\* ================================================================ properties
NoDup(s) == \A i, j \in DOMAIN s : i # j => s[i] # s[j]

CloseFailed(r) == [where |-> r, exc |-> "close"] \in raised

BodyRaised == [where |-> "call", exc |-> "body"] \in raised

\* C1: a loop pytest_pyfunc_call created is torn down (teardown_test_loop was
\* called on it, with the --fast value) by the time the call is over,
\* whether the body returned or raised.
C1_CreatedLoopTornDown ==
    (callState = "over" /\ CallLoop \in created)
        => /\ loopState[CallLoop] = "closed"
           /\ [loop |-> CallLoop, fast |-> fast] \in teardowns

\* C2: a registry's teardown, when no close() raises, closes every tracked
\* instance in reverse order of creation and leaves the list empty; no
\* instance is closed twice by the teardowns, and at the end of the test every
\* registry whose closes returned is empty, whatever the test's outcome.
C2_RegistryClosedInReverse ==
    /\ [][\A r \in Registries :
            (/\ phase = "teardown" /\ finStack # <<>> /\ Top = r
             /\ finStack' = Rest
             /\ ~CloseFailed(r)')
            => /\ reg'[r] = <<>>
               /\ closeLog' = closeLog \o Reverse(reg[r])]_vars
    /\ [](/\ NoDup(closeLog)
          /\ phase = "done" =>
               \A r \in Registries \cap setupDone : CloseFailed(r) \/ reg[r] = <<>>)

C2_Witness ==
    /\ phase = "done"
    /\ BodyRaised
    /\ closeLog = <<2, 1>>
    /\ inst[1].made = "test_server" /\ inst[2].made = "test_server"
    /\ reg["test_server"] = <<>>

\* C3: when, after a test whose body ran, the finalizer's advancement of the
\* generator yields a second value (the generator is suspended again), an
\* error is raised from the finalizer.
C3_SecondValueReported ==
    (callState = "over" /\ Len(genAdv) = 2 /\ gen = "suspended")
        => \E e \in raised : e.where = "agen_finalizer"

\* C4: the generator of an async generator fixture is advanced at most twice,
\* first in the fixture's setup and then in teardown, the second time never
\* while setup or the test body is under way; when the test is done and the
\* fixture was resolved with a loop in scope, it was advanced exactly twice.
C4_AdvancedOnceEach ==
    /\ Len(genAdv) <= 2
    /\ Len(genAdv) >= 1 => genAdv[1] = "setup"
    /\ Len(genAdv) = 2 =>
         /\ genAdv[2] = "teardown"
         /\ phase \in {"teardown", "done"}
         /\ callState \in {"idle", "over"}
    /\ (phase = "done" /\ "agen" \in setupDone /\ "loop" \in fixturenames)
         => genAdv = <<"setup", "teardown">>

C4_Witness ==
    /\ phase = "done"
    /\ callState = "over"
    /\ genAdv = <<"setup", "teardown">>
    /\ finalizerOut = "swallowed"

\* C5: an async fixture called with 'loop' not among the request's fixture
\* names fails with the usage error, and then its function was not called,
\* no finalizer was added, no loop exists and nothing was run on a loop.
C5_NoLoopIsUsageError ==
    \A f \in AsyncFixtures :
        (f \in setupDone /\ "loop" \notin fixturenames)
            => /\ [where |-> f, exc |-> "usage"] \in raised
               /\ called[f] = <<>>
               /\ finalizers = {}
               /\ genAdv = <<>>
               /\ \A l \in Loops : loopState[l] = "none"
               /\ runLog = {}
               /\ phase \in {"teardown", "done"}

C5_Witness ==
    /\ phase = "done"
    /\ "loop" \notin fixturenames
    /\ "agen" \in setupDone
    /\ [where |-> "agen", exc |-> "usage"] \in raised

\* C6: everything a test runs on a loop, it runs on one and the same loop, and
\* at most one loop exists; when 'loop' was resolved, the body runs on that
\* loop and pytest_pyfunc_call creates none.
C6_OneLoopPerTest ==
    /\ \A e1, e2 \in runLog : e1.loop = e2.loop
    /\ Cardinality({l \in Loops : loopState[l] # "none"}) <= 1
    /\ ("loop" \in setupDone /\ callState \in {"running", "over"} /\ function = "coro")
         => /\ created = {}
            /\ [what |-> "test_body", loop |-> FixtureLoop, closed |-> FALSE] \in runLog

C6_Witness ==
    /\ phase = "done"
    /\ {e.what : e \in runLog} =
         {"fixture_setup", "fixture_finalizer", "registry_start",
          "registry_close", "test_body"}

\* C7: no registry close and no fixture finalizer runs on a loop that was torn
\* down, and when the loop of the 'loop' fixture is torn down no fixture
\* teardown is left to run.
C7_LoopTornDownLast ==
    /\ \A e \in runLog :
         e.what \in {"registry_close", "fixture_finalizer"} => ~e.closed
    /\ loopState[FixtureLoop] = "closed" => finStack = <<>>

C7_Witness ==
    /\ phase = "done"
    /\ loopState[FixtureLoop] = "closed"
    /\ \E e \in runLog : e.what = "registry_close"
    /\ \E e \in runLog : e.what = "fixture_finalizer"

\* The clients go() started for an application: the server is the one go()
\* constructed in the same call, right before the client.
AppClients ==
    {c \in DOMAIN inst : /\ inst[c].cls = "TestClient"
                         /\ inst[c].started
                         /\ inst[c].srv = c - 1
                         /\ inst[inst[c].srv].made = "test_client"}

EverTracked == UNION {Range(reg[r]) : r \in Registries} \cup Range(closeLog)

C9_GlobalReverseOrder ==
    (\A r \in Registries : ~CloseFailed(r))
        => \A a, b \in DOMAIN closeLog : a < b => closeLog[a] > closeLog[b]

\* C9 amended: among the instances of one factory the one created later is
\* closed first; the instances of different factories are closed factory by
\* factory, each factory's closes together.
C9_ReverseOrderPerFactory ==
    /\ \A a, b \in DOMAIN closeLog :
         (a < b /\ inst[closeLog[a]].made = inst[closeLog[b]].made)
            => closeLog[a] > closeLog[b]
    /\ \A a, b, c \in DOMAIN closeLog :
         (a < b /\ b < c /\ inst[closeLog[a]].made = inst[closeLog[c]].made)
            => inst[closeLog[b]].made = inst[closeLog[a]].made

C9_Witness ==
    /\ phase = "done"
    /\ raised = {}
    /\ Len(closeLog) = 2
    /\ closeLog[1] < closeLog[2]
    /\ inst[closeLog[1]].made # inst[closeLog[2]].made

\* C10, on the value the claim names: for the option "bogus",
\* pytest_generate_tests (for a test that takes a loop) raises an error that
\* names bogus and lists the names of the available loop implementations.
C10_ErrorListsAvailable ==
    (genOut.status # "idle" /\ "loop" \in fixturenames /\ loops = <<"bogus">>)
        => /\ genOut.status = "ValueError"
           /\ genOut.name = <<"bogus">>
           /\ Range(genOut.listed) = avail_factories(avail)

\* The words of one comma-separated piece of the option, without the marker
\* and the blanks: the name the piece requests.
IsWord(x) == x \in Words
Requested(piece) == SelectSeq(piece, IsWord)

\* the pieces of the option, "all" standing for "pyloop,uvloop?,tokio?"
Pieces ==
    IF loops = <<"all">>
    THEN {<<"pyloop">>, <<"uvloop", "?">>, <<"tokio", "?">>}
    ELSE Range(split(loops))

\* every piece whose name is not available is suffixed with the marker
UnavailableAllMarked ==
    \A p \in Pieces :
        Requested(p) \notin avail_factories(avail) => endswith(p, "?")

\* C11: for an option in which every unavailable name is suffixed with '?',
\* pytest_generate_tests (for a test that takes a loop) raises nothing and
\* parametrizes with exactly the requested names that are available, each
\* once; "all" gives pyloop and whichever of uvloop and tokio is available.
C11_OptionalSkippedSilently ==
    (genOut.status # "idle" /\ "loop" \in fixturenames /\ UnavailableAllMarked)
        => /\ genOut.status = "parametrized"
           /\ NoDup(genOut.ids)
           /\ Range(genOut.ids) =
                {Requested(p) : p \in Pieces} \cap avail_factories(avail)
           /\ loops = <<"all">> =>
                Range(genOut.ids) = {<<"pyloop">>} \cup {<<m>> : m \in avail}

\* "pyloop,uvloop?" with uvloop unavailable: one parametrization, pyloop
C11_Witness ==
    /\ loops = <<"pyloop", ",", "uvloop", "?">>
    /\ "uvloop" \notin avail
    /\ "loop" \in fixturenames
    /\ genOut.status = "parametrized"
    /\ genOut.ids = << <<"pyloop">> >>

RuntimeWarnings(ws) == {i \in DOMAIN ws : ws[i] = "RuntimeWarning"}

AggregateError == [where |-> "call", exc |-> "RuntimeError"]

\* C12: when the body of an async test returns, then if the run window
\* recorded a RuntimeWarning the call fails with the aggregate RuntimeError,
\* which lists every recorded RuntimeWarning once, in order, and no other
\* warning; if it recorded none the call raises nothing and returns True.
C12_WarningsAggregated ==
    [][(callState = "running" /\ callState' = "over" /\ ~BodyRaised')
        => IF RuntimeWarnings(recorded') # {}
           THEN /\ callResult' = "RuntimeError"
                /\ raised' = raised \cup {AggregateError}
                /\ Range(reported') = RuntimeWarnings(recorded')
                /\ \A i, j \in DOMAIN reported' :
                     i < j => reported'[i] < reported'[j]
           ELSE /\ callResult' = "True"
                /\ raised' = raised
                /\ reported' = <<>>]_vars

C12_Witness ==
    /\ callState = "over"
    /\ callResult = "RuntimeError"
    /\ recorded = <<"UserWarning", "RuntimeWarning">>
    /\ reported = <<2>>
    /\ AggregateError \in raised
    /\ ~BodyRaised

\* C13: when the fixture values hold a loop, pytest_pyfunc_call runs the
\* body on that loop and creates none, and the end of the call, whether the
\* body returned or raised, leaves every loop as it was and makes no
\* teardown_test_loop call: the loop stays open until its own fixture
\* finishes.
C13_SuppliedLoopLeftAlone ==
    /\ []((function = "coro" /\ callState \in {"running", "over"}
                /\ "loop" \in setupDone)
            => /\ created = {}
               /\ loopState[CallLoop] = "none"
               /\ \A e \in runLog : e.what = "test_body" => e.loop = FixtureLoop
               /\ "loop" \in Range(finStack) =>
                    /\ loopState[FixtureLoop] = "open"
                    /\ teardowns = {})
    /\ [][(callState = "running" /\ callState' = "over" /\ "loop" \in setupDone)
            => /\ loopState' = loopState
               /\ teardowns' = teardowns]_vars

C13_Witness ==
    /\ function = "coro"
    /\ callState = "over"
    /\ BodyRaised
    /\ phase = "teardown"
    /\ "loop" \in Range(finStack)
    /\ loopState[FixtureLoop] = "open"
    /\ [what |-> "test_body", loop |-> FixtureLoop, closed |-> FALSE] \in runLog

\* what test_client's go was given is none of: an application, a test
\* server, a callable that returns one of the two
Unrecognised(q) ==
    /\ q.type \notin {"Application", "BaseTestServer"}
    /\ ~(q.callable /\ q.returns \in {"Application", "BaseTestServer"})

\* C14: a call of test_client's go with an argument that is not an
\* application, not a test server and not a callable returning one of them
\* ends with an error raised by go (the ValueError of line 290, or the
\* assertion of line 281 when positional arguments came with a non-callable);
\* it constructs and starts nothing and leaves every registry as it was.
C14_UnknownArgumentRejected ==
    [][(nGo' = nGo + 1 /\ param' # NoParam /\ Unrecognised(param'))
        => /\ lastGo' \in {"ValueError", "AssertionError"}
           /\ lastGo' = "AssertionError" => (param'.args /\ ~param'.callable)
           /\ inst' = inst
           /\ reg' = reg
           /\ runLog' = runLog]_vars

C14_Witness ==
    /\ param # NoParam
    /\ param.type = "function" /\ param.returns = "other"
    /\ lastGo = "ValueError"
    /\ reg["test_client"] # <<>>

\* C15: for a test function that is not a coroutine function (an ordinary
\* function or an async generator function) pytest_pyfunc_call returns None
\* and changes nothing: no loop is created or torn down, nothing is run on a
\* loop, no warning is recorded and nothing is raised by it.
C15_NonCoroutineDeclined ==
    /\ [][(function # "coro" /\ callState = "idle" /\ callState' # "idle")
            => /\ callResult' = "None"
               /\ callState' = "hostrun"
               /\ UNCHANGED <<loopState, created, teardowns, runLog, recorded,
                              reported, raised, finStack, inst, reg>>]_vars
    /\ [](function # "coro"
            => /\ created = {}
               /\ loopState[CallLoop] = "none"
               /\ \A e \in runLog : e.what # "test_body"
               /\ recorded = <<>>
               /\ callResult \in {"pending", "None"})

C15_Witness ==
    /\ function = "asyncgen"
    /\ callState = "hostrun"
    /\ callResult = "None"
    /\ loopState[FixtureLoop] = "open"
    /\ runLog = {}

\* C16: when an async fixture is set up, 'request' is added to its argnames
\* unless they held it (then they stay as they were), and its real function,
\* if it gets called, is called with exactly the arguments it declared: with
\* 'request' only if it declared it, and with every other argument.
C16_RequestAddedAndStripped ==
    [][\A f \in AsyncFixtures :
         (f \notin setupDone /\ f \in setupDone')
            => /\ "request" \in argnames'[f]
               /\ argnames'[f] \ {"request"} = argnames[f] \ {"request"}
               /\ "request" \in argnames[f] => argnames'[f] = argnames[f]
               /\ called'[f] # <<>> => called'[f] = <<argnames[f]>>
               /\ LoopInScope => called'[f] # <<>>]_vars

C16_Witness ==
    /\ {"agen", "acoro"} \subseteq setupDone
    /\ called["agen"] = <<{"loop"}>>
    /\ argnames["agen"] = {"loop", "request"}
    /\ called["acoro"] = <<{"request"}>>
    /\ argnames["acoro"] = {"request"}

\* the first advancement of the async generator fixture raised
SetupAdvanceRaised == \E e \in raised : e.where = "agen" /\ e.exc \in FirstAdvance

\* C17: the wrapper adds the finalizer before it advances the generator: once
\* the generator was advanced the finalizer is on the request, also when that
\* advancement raised; the teardown then runs the finalizer, which advances
\* the generator a second time (and swallows the StopAsyncIteration of a
\* generator that is over).
C17_FinalizerAddedBeforeAdvance ==
    /\ genAdv # <<>> => "agen" \in finalizers
    /\ SetupAdvanceRaised =>
         /\ "agen" \in finalizers
         /\ callState = "idle"
         /\ phase = "done" => /\ genAdv = <<"setup", "teardown">>
                              /\ finalizerOut = "swallowed"

C17_Witness ==
    /\ phase = "done"
    /\ [where |-> "agen", exc |-> "raise"] \in raised
    /\ genAdv = <<"setup", "teardown">>
    /\ finalizerOut = "swallowed"

\* the instances the step constructs
Constructed == {i \in DOMAIN inst' : i > Len(inst)}

\* C18: an instance enters a registry only in the go() that constructed it,
\* in its own factory's registry, and only when its start returned; a go()
\* whose start raised leaves the registries as they were.  So every instance
\* that is or was tracked is a started one, and an instance that is not
\* started (the server go() builds for an application included) is in no
\* registry and no teardown calls close() on it.
C18_TrackedOnlyAfterStart ==
    /\ [][LET joined(r) == Range(reg'[r]) \ Range(reg[r])
           IN /\ \A r \in Registries : \A i \in joined(r) :
                   /\ i \in Constructed
                   /\ inst'[i].started
                   /\ inst'[i].made = r
                   /\ lastGo' = "ok"
              /\ (nGo' = nGo + 1 /\ lastGo' = "start_error")
                   => /\ reg' = reg
                      /\ Constructed # {}
                      /\ \A j \in Constructed :
                           inst'[j].cls = "TestClient" => ~inst'[j].started]_vars
    /\ [](\A i \in DOMAIN inst :
            /\ i \in EverTracked => inst[i].started
            /\ inst[i].closes > 0 => i \in Range(closeLog)
            /\ ~inst[i].started => (i \notin EverTracked /\ inst[i].closes = 0))

\* a test_server start that raised, then an application whose client start
\* raised: nothing tracked, nothing closed at the end
C18_Witness ==
    /\ phase = "done"
    /\ Len(inst) = 3
    /\ inst[1].made = "test_server" /\ ~inst[1].started
    /\ inst[2].made = "test_client" /\ inst[2].cls = "TestServer"
    /\ inst[3].cls = "TestClient" /\ ~inst[3].started
    /\ closeLog = <<>>
    /\ \A i \in DOMAIN inst : inst[i].closes = 0

\* C19: when a close() raises in a registry's teardown, the teardown ends
\* there with the error: it has closed, newest first, the instances down to
\* the failing one, which is out of the list as well; the instances created
\* before the failing one stay in the list and get no close(), then or later.
C19_CloseErrorStopsTeardown ==
    /\ [][\A r \in Registries :
            (/\ phase = "teardown" /\ finStack # <<>> /\ Top = r
             /\ finStack' = Rest
             /\ CloseFailed(r)')
            => \E k \in 1..Len(reg[r]) :
                 LET failing == reg[r][Len(reg[r]) + 1 - k]
                 IN /\ closeLog' = closeLog \o Popped(reg[r], k)
                    /\ closeLog'[Len(closeLog')] = failing
                    /\ reg'[r] = SubSeq(reg[r], 1, Len(reg[r]) - k)
                    /\ failing \notin Range(reg'[r])
                    /\ \A i \in Range(reg'[r]) :
                         i < failing /\ inst'[i].closes = 0
                    /\ \A q \in Registries \ {r} : reg'[q] = reg[q]]_vars
    /\ [](\A r \in Registries : \A i \in Range(reg[r]) : inst[i].closes = 0)

\* two servers, the close() of the later one raised: the earlier one is
\* still listed, unclosed, at the end of the test
C19_Witness ==
    /\ phase = "done"
    /\ CloseFailed("test_server")
    /\ reg["test_server"] = <<1>>
    /\ closeLog = <<2>>
    /\ inst[1].closes = 0
    /\ inst[2].closes = 1

====
